---- MODULE Spec2Model ----
(***************************************************************************)
(* Cellular automaton (anneal rule) on a torus, CUDA version: src/ca.cu.   *)
(*                                                                         *)
(* The model follows main(): host allocation, initConfig, device           *)
(* allocation, upload, the iteration loop (boundary launch, simulate       *)
(* launch, pointer swap), download, error check, digest, cleanup.  A       *)
(* kernel launch creates one work item per thread of the launch grid; the  *)
(* work items of the running kernel run one at a time in any order, each   *)
(* executing the assignments of the kernel body in program order.  Kernels *)
(* of the default stream run one after the other; the host runs ahead of   *)
(* the device until it needs the stream.                                   *)
(*                                                                         *)
(* Sizes are scaled down: XSIZE and the launch grid keep the relation of   *)
(* the source (the launch grid is XSIZE work items wide and GridY work     *)
(* items high, whatever lines is), with small values.                      *)
(***************************************************************************)
EXTENDS Integers, Sequences, FiniteSets, TLC

\* #define XSIZE 1024 (scaled down)
XSIZE == 2

\* dim3 numBlocks(32, 4096), threadsPerBlock(32, 32): the launch grid is
\* 32*32 = 1024 = XSIZE work items wide ...
GridX == XSIZE

\* ... and 4096*32 = 131072 work items high (scaled down)
GridY == 3

\* lines (argv[1]) ranges over 1 .. MaxLines: fewer rows than the launch grid
\* has work items, as many, and one more
MaxLines == GridY + 1

\* iterations (argv[2]) ranges over 0 .. MaxIter
MaxIter == 2

\* State is a char.  Cells the program sets hold 0 or 1.  Indet stands for a
\* byte the program does not determine: uninitialised device memory, the
\* result of an out-of-bounds load, or a value computed from such a byte.
Indet == 2

VARIABLES
    lines, iterations,      \* atoi(argv[1]), atoi(argv[2])
    pc,                     \* position of the host in main()
    fromPtr, toPtr,         \* host pointers from, to: "null" or "ok"
    from,                   \* contents of the host buffer from
    pFrom, pTo, pTemp,      \* device pointers: "uninit", "null", "wild", "d1", "d2"
    dev,                    \* contents of the two device buffers
    i,                      \* loop counter
    layout,                 \* where the device buffers lie: "unknown" until it matters
    kern,                   \* the kernel in the stream, with its arguments
    todo,                   \* its work items <<x, y>> not yet executed
    devFault,               \* the device has reported a (sticky) error
    lastErr,                \* what cudaGetLastError() would return
    printed,                \* lines written to stdout
    exit,                   \* "running", "success", "failure", "crash"
    hash,                   \* argument of the digest of the result line
    freed,                  \* pointers passed to cudaFree, in order
    \* history variables
    initGrid,               \* host buffer as initConfig left it
    nBoundary, nSimulate,   \* launches issued
    nSwap, nCopy,           \* swaps done, cudaMemcpy calls issued
    lastDst,                \* destination of the last upload or simulate launch issued
    dlSrc,                  \* buffer the download read
    oob,                    \* some work item addressed a cell outside its buffer
    atLaunch,               \* device memory when the kernel in the stream was launched
    hostTouched             \* the host has accessed memory through from or to

vars == <<lines, iterations, pc, fromPtr, toPtr, from, pFrom, pTo, pTemp, dev,
          i, kern, todo, devFault, lastErr, printed, exit, hash, freed,
          initGrid, nBoundary, nSimulate, nSwap, nCopy, lastDst, dlSrc, oob,
          hostTouched, layout, atLaunch>>

hostVars == <<fromPtr, toPtr, from, initGrid, hostTouched>>
argVars == <<lines, iterations>>
devVars == <<dev, layout, kern, todo, devFault, lastErr, oob, atLaunch>>
ptrVars == <<pFrom, pTo, pTemp>>
outVars == <<printed, exit, hash, freed>>
cntVars == <<nBoundary, nSimulate, nSwap, nCopy, lastDst, dlSrc>>

----------------------------------------------------------------------------
\* Line buffers: (lines + 2) rows of XSIZE + 2 states

Rows == 0 .. lines + 1
Cols == 0 .. XSIZE + 1
Bufs == {"d1", "d2"}

\* calloc((lines + 2), sizeof(Line)): zeroed memory
ZeroGrid == [r \in Rows |-> [c \in Cols |-> 0]]

\* cudaMalloc(..., (lines + 2) * sizeof(Line)): memory of unspecified contents
UninitGrid == [r \in Rows |-> [c \in Cols |-> Indet]]

InBounds(r, c) == r \in Rows /\ c \in Cols

Interior == (1 .. lines) \X (1 .. XSIZE)

\* Where cudaMalloc places the buffers is not determined by the program: the
\* second buffer lies somewhere else ("apart"), or directly behind the first
\* ("adjacent"), so that row lines+2+k of the first is row k of the second.
Layouts == {"apart", "adjacent"}

\* the cell of device memory that buf[r][c], with buf pointing to buffer b,
\* addresses under layout L: <<buffer, row, column>>, buffer "none" when the
\* address lies in neither buffer
Resolve(L, b, r, c) ==
    IF InBounds(r, c) THEN <<b, r, c>>
    ELSE IF L = "adjacent" /\ b = "d1" /\ InBounds(r - (lines + 2), c)
         THEN <<"d2", r - (lines + 2), c>>
         ELSE <<"none", r, c>>

\* a load through buf[r][c]; outside both buffers the byte is undetermined
Load(L, m, b, r, c) ==
    LET a == Resolve(L, b, r, c)
    IN  IF a[1] = "none" THEN Indet ELSE m[a[1]][a[2]][a[3]]

\* a store through buf[r][c]; outside both buffers it reaches neither
Store(L, m, b, r, c, v) ==
    LET a == Resolve(L, b, r, c)
    IN  IF a[1] = "none" THEN m ELSE [m EXCEPT ![a[1]][a[2]][a[3]] = v]

----------------------------------------------------------------------------
\* simulate: static State anneal[10] = {0, 0, 0, 0, 1, 0, 1, 1, 1, 1}
anneal == <<0, 0, 0, 0, 1, 0, 1, 1, 1, 1>>

\* the nine cells from[y-1..y+1][x-1..x+1], in the order the source adds them
Neighbourhood(L, m, b, y, x) ==
    << Load(L, m, b, y - 1, x - 1), Load(L, m, b, y, x - 1), Load(L, m, b, y + 1, x - 1),
       Load(L, m, b, y - 1, x),     Load(L, m, b, y, x),     Load(L, m, b, y + 1, x),
       Load(L, m, b, y - 1, x + 1), Load(L, m, b, y, x + 1), Load(L, m, b, y + 1, x + 1) >>

Sum9(n) == n[1] + n[2] + n[3] + n[4] + n[5] + n[6] + n[7] + n[8] + n[9]

AllBoolean(n) == \A k \in 1 .. 9 : n[k] \in {0, 1}

\* anneal[sum]: the table entry when every operand is a 0/1 cell; with an
\* undetermined operand the index, and so the value, is undetermined
SimValue(L, m, b, y, x) ==
    LET n == Neighbourhood(L, m, b, y, x)
    IN  IF AllBoolean(n) THEN anneal[Sum9(n) + 1] ELSE Indet

\* simulate: the row and column a work item (x, y) updates
SimRow(y) == y + 1
SimCol(x) == x + 1

----------------------------------------------------------------------------
\* boundary: the assignment statements of work item (x, y).
\*   1: if (y == lines-1) buf[y+2][x+1] = buf[1][x+1]
\*   2: if (y == 0)       buf[y][x+1]   = buf[lines][x+1]
\*   3: if (x == 0)       buf[y+1][x]   = buf[y+1][XSIZE]
\*   4: if (x == XSIZE-1) buf[y+1][x+2] = buf[y+1][1]
\*   5..8: if (x == 0 && y == 0) the four corner assignments
BStmts == 1 .. 8

BGuard(x, y, s) ==
    CASE s = 1 -> y = lines - 1
      [] s = 2 -> y = 0
      [] s = 3 -> x = 0
      [] s = 4 -> x = XSIZE - 1
      [] OTHER -> x = 0 /\ y = 0

\* the destinations with the left side statement storing one column further
\* right, buf[y+1][x+1] = buf[y+1][XSIZE]
BDstInward(x, y, s) ==
    CASE s = 1 -> <<y + 2, x + 1>>
      [] s = 2 -> <<y, x + 1>>
      [] s = 3 -> <<y + 1, x + 1>>
      [] s = 4 -> <<y + 1, x + 2>>
      [] s = 5 -> <<0, 0>>
      [] s = 6 -> <<0, XSIZE + 1>>
      [] s = 7 -> <<lines + 1, 0>>
      [] OTHER -> <<lines + 1, XSIZE + 1>>

BDst(x, y, s) ==
    CASE s = 1 -> <<y + 2, x + 1>>
      [] s = 2 -> <<y, x + 1>>
      [] s = 3 -> <<y + 1, x>>
      [] s = 4 -> <<y + 1, x + 2>>
      [] s = 5 -> <<0, 0>>
      [] s = 6 -> <<0, XSIZE + 1>>
      [] s = 7 -> <<lines + 1, 0>>
      [] OTHER -> <<lines + 1, XSIZE + 1>>

BSrc(x, y, s) ==
    CASE s = 1 -> <<1, x + 1>>
      [] s = 2 -> <<lines, x + 1>>
      [] s = 3 -> <<y + 1, XSIZE>>
      [] s = 4 -> <<y + 1, 1>>
      [] s = 5 -> <<lines, XSIZE>>
      [] s = 6 -> <<lines, 1>>
      [] s = 7 -> <<1, XSIZE>>
      [] OTHER -> <<1, 1>>

\* the work items of a launch: blockIdx * blockDim + threadIdx on both axes
Threads == (0 .. GridX - 1) \X (0 .. GridY - 1)

\* one assignment of boundary, when its condition holds: buf[dst] = buf[src]
BAssign(L, m, b, x, y, s) ==
    IF BGuard(x, y, s)
    THEN Store(L, m, b, BDst(x, y, s)[1], BDst(x, y, s)[2],
               Load(L, m, b, BSrc(x, y, s)[1], BSrc(x, y, s)[2]))
    ELSE m

\* the body of boundary for work item (x, y): its assignments in program order
RECURSIVE BoundaryFrom(_, _, _, _, _, _)
BoundaryFrom(L, m, b, x, y, s) ==
    IF s \in BStmts
    THEN BoundaryFrom(L, BAssign(L, m, b, x, y, s), b, x, y, s + 1)
    ELSE m

BoundaryItem(L, m, b, x, y) == BoundaryFrom(L, m, b, x, y, 1)

\* the cells work item (x, y) of boundary addresses
BoundaryCells(x, y) ==
    UNION {{BSrc(x, y, s), BDst(x, y, s)} : s \in {k \in BStmts : BGuard(x, y, k)}}

\* the body of simulate for work item (x, y): to[y+1][x+1] = anneal[...]
SimulateItem(L, m, src, dst, x, y) ==
    Store(L, m, dst, SimRow(y), SimCol(x), SimValue(L, m, src, SimRow(y), SimCol(x)))

\* the cells work item (x, y) of simulate addresses
SimulateCells(x, y) ==
    {<<SimRow(y) + dy, SimCol(x) + dx>> : dy \in {-1, 0, 1}, dx \in {-1, 0, 1}}

OutOfBounds(cells) == \E a \in cells : ~InBounds(a[1], a[2])

\* the layouts a work item may meet: the placement shows with the first
\* access outside a buffer and stays as it showed
LayoutsFor(bad) == IF bad /\ layout = "unknown" THEN Layouts ELSE {layout}

NoKernel == [name |-> "none", src |-> "null", dst |-> "null"]

\* a stream that lets an operation start while the one before it still runs
StreamOverlaps == TRUE

\* the default stream runs one operation at a time, in issue order
StreamIdle == todo = {}

----------------------------------------------------------------------------
\* initConfig: buf[y][x] = randInt(100) >= 50.  The generator is not part of
\* the sources; a draw is any of the two values around the threshold.
Draws == {49, 50}

InitCell(d) == IF d >= 50 THEN 1 ELSE 0

\* getMD5DigestStr(from, lines): the digest reads buflen = lines bytes from
\* the start of the buffer; byte k of a Line array is cell
\* [k / (XSIZE+2)][k % (XSIZE+2)]
DigestLen == lines

DigestCell(k) == <<k \div (XSIZE + 2), k % (XSIZE + 2)>>

DigestBytes(g) ==
    [k \in 1 .. DigestLen |-> g[DigestCell(k - 1)[1]][DigestCell(k - 1)[2]]]

\* MD5 as an injective function of the bytes it is given
MD5(bytes) == <<"MD5", bytes>>

\* the loop test with <= in place of <: one iteration too many
LoopCondOffByOne == i <= iterations

\* for (int i = 0; i < iterations; i++)
LoopCond == i < iterations

\* the download reading the destination buffer of the pair instead
DownloadFromTo == pTo

\* cudaMemcpy(from, pFrom, ..., cudaMemcpyDeviceToHost)
DownloadSrc == pFrom

\* cudaMemcpy(pFrom, from, ..., cudaMemcpyHostToDevice)
UploadDst == pFrom

\* the exchange written without the temporary: pFrom = pTo; pTo = pFrom
SwappedToNoTemp == pTo

\* pTemp = pFrom; pFrom = pTo; pTo = pTemp: the values pFrom and pTo receive
SwappedFrom == pTo
SwappedTo == pFrom

\* cudaMalloc: on success the pointer is the new buffer; on failure it keeps
\* the value of an uninitialised local, which compares equal to NULL or not
AllocOutcomes(b) == {b, "null", "wild"}

\* the device after an error: every later call fails, memory is out of reach
LostMemory == [b \in Bufs |-> UninitGrid]

----------------------------------------------------------------------------
\* main after lines = atoi(argv[1]) and iterations = atoi(argv[2]), with the
\* arguments the program is specified for: lines >= 1, iterations >= 0
Init ==
    /\ lines \in 1 .. MaxLines
    /\ iterations \in 0 .. MaxIter
    /\ pc = "alloc_host"
    /\ fromPtr = "uninit" /\ toPtr = "uninit"
    /\ from = <<>>
    /\ pFrom = "uninit" /\ pTo = "uninit" /\ pTemp = "uninit"
    /\ dev = [b \in Bufs |-> <<>>]
    /\ layout = "unknown"
    /\ atLaunch = [b \in Bufs |-> <<>>]
    /\ i = 0
    /\ kern = NoKernel
    /\ todo = {}
    /\ devFault = FALSE /\ lastErr = FALSE
    /\ printed = {}
    /\ exit = "running"
    /\ hash = MD5(<<>>)
    /\ freed = <<>>
    /\ initGrid = <<>>
    /\ nBoundary = 0 /\ nSimulate = 0 /\ nSwap = 0 /\ nCopy = 0
    /\ lastDst = "none" /\ dlSrc = "none"
    /\ oob = FALSE
    /\ hostTouched = FALSE

\* from = calloc(...); to = calloc(...)
AllocHost ==
    /\ pc = "alloc_host"
    /\ \E a \in {"ok", "null"}, b \in {"ok", "null"} :
         /\ fromPtr' = a
         /\ toPtr' = b
         /\ from' = IF a = "ok" THEN ZeroGrid ELSE <<>>
    /\ pc' = "init"
    /\ UNCHANGED <<argVars, initGrid, hostTouched, devVars, ptrVars, outVars,
                   cntVars, i>>

\* initConfig(from, lines), called before the NULL test of main
InitConfig ==
    /\ pc = "init"
    /\ hostTouched' = TRUE
    /\ \/ /\ fromPtr = "ok"
          /\ \E d \in [Interior -> Draws] :
               from' = [r \in Rows |-> [c \in Cols |->
                          IF <<r, c>> \in Interior THEN InitCell(d[<<r, c>>])
                                                   ELSE from[r][c]]]
          /\ initGrid' = from'
          /\ pc' = "check_host"
          /\ UNCHANGED exit
       \/ \* a store through a null pointer: the process is killed ...
          /\ fromPtr = "null"
          /\ pc' = "exit"
          /\ exit' = "crash"
          /\ UNCHANGED <<from, initGrid>>
       \/ \* ... or the store goes unnoticed
          /\ fromPtr = "null"
          /\ pc' = "check_host"
          /\ UNCHANGED <<from, initGrid, exit>>
    /\ UNCHANGED <<argVars, fromPtr, toPtr, devVars, ptrVars, printed, hash,
                   freed, cntVars, i>>

\* if (from == NULL | to == NULL) { printf(...); exit(EXIT_FAILURE); }
CheckHost ==
    /\ pc = "check_host"
    /\ \/ /\ fromPtr = "null" \/ toPtr = "null"
          /\ printed' = printed \cup {"ERROR: failure allocating host memory"}
          /\ exit' = "failure"
          /\ pc' = "exit"
       \/ /\ fromPtr # "null" /\ toPtr # "null"
          /\ pc' = "alloc_dev"
          /\ UNCHANGED <<printed, exit>>
    /\ UNCHANGED <<argVars, hostVars, devVars, ptrVars, hash, freed, cntVars, i>>

\* cudaMalloc(&pFrom, ...); cudaMalloc(&pTo, ...)
AllocDev ==
    /\ pc = "alloc_dev"
    /\ pFrom' \in AllocOutcomes("d1")
    /\ pTo' \in AllocOutcomes("d2")
    /\ dev' = [b \in Bufs |-> UninitGrid]
    /\ pc' = "check_dev"
    /\ UNCHANGED <<argVars, hostVars, pTemp, layout, kern, todo, devFault, lastErr,
                   oob, atLaunch, outVars, cntVars, i>>

\* if (pFrom == NULL | pTo == NULL) { printf(...); exit(EXIT_FAILURE); }
CheckDev ==
    /\ pc = "check_dev"
    /\ \/ /\ pFrom = "null" \/ pTo = "null"
          /\ printed' = printed \cup {"ERROR: failure allocating device memory"}
          /\ exit' = "failure"
          /\ pc' = "exit"
       \/ /\ pFrom # "null" /\ pTo # "null"
          /\ pc' = "upload"
          /\ UNCHANGED <<printed, exit>>
    /\ UNCHANGED <<argVars, hostVars, devVars, ptrVars, hash, freed, cntVars, i>>

\* a device call that fails: the error is recorded and stays with the device
DeviceFails ==
    /\ devFault' = TRUE
    /\ lastErr' = TRUE
    /\ dev' = LostMemory
    /\ todo' = {}

\* cudaMemcpy(pFrom, from, ..., cudaMemcpyHostToDevice); its result is not tested
Upload ==
    /\ pc = "upload"
    /\ nCopy' = nCopy + 1
    /\ \/ /\ ~devFault /\ UploadDst \in Bufs
          /\ dev' = [dev EXCEPT ![UploadDst] = from]
          /\ UNCHANGED <<devFault, lastErr, todo>>
       \/ DeviceFails
    /\ lastDst' = UploadDst
    /\ pc' = "loop"
    /\ UNCHANGED <<argVars, hostVars, ptrVars, layout, kern, oob, atLaunch, outVars,
                   nBoundary, nSimulate, nSwap, dlSrc, i>>

\* the loop goes on; boundary<<<numBlocks, threadsPerBlock>>>(pFrom, lines)
LaunchBoundary ==
    /\ pc = "loop"
    /\ LoopCond
    /\ StreamIdle
    /\ nBoundary' = nBoundary + 1
    /\ \/ /\ ~devFault /\ pFrom \in Bufs
          /\ kern' = [name |-> "boundary", src |-> pFrom, dst |-> pFrom]
          /\ todo' = Threads
          /\ atLaunch' = dev
          /\ UNCHANGED <<dev, devFault, lastErr>>
       \/ /\ DeviceFails
          /\ UNCHANGED <<kern, atLaunch>>
    /\ pc' = "simulate"
    /\ UNCHANGED <<argVars, hostVars, ptrVars, layout, oob, outVars, nSimulate,
                   nSwap, nCopy, lastDst, dlSrc, i>>

\* simulate<<<numBlocks, threadsPerBlock>>>(pFrom, pTo, lines)
LaunchSimulate ==
    /\ pc = "simulate"
    /\ StreamIdle
    /\ nSimulate' = nSimulate + 1
    /\ lastDst' = pTo
    /\ \/ /\ ~devFault /\ pFrom \in Bufs /\ pTo \in Bufs
          /\ kern' = [name |-> "simulate", src |-> pFrom, dst |-> pTo]
          /\ todo' = Threads
          /\ atLaunch' = dev
          /\ UNCHANGED <<dev, devFault, lastErr>>
       \/ /\ DeviceFails
          /\ UNCHANGED <<kern, atLaunch>>
    /\ pc' = "swap"
    /\ UNCHANGED <<argVars, hostVars, ptrVars, layout, oob, outVars, nBoundary,
                   nSwap, nCopy, dlSrc, i>>

\* pTemp = pFrom; pFrom = pTo; pTo = pTemp; i++
Swap ==
    /\ pc = "swap"
    /\ pTemp' = pFrom
    /\ pFrom' = SwappedFrom
    /\ pTo' = SwappedTo
    /\ i' = i + 1
    /\ nSwap' = nSwap + 1
    /\ pc' = "loop"
    /\ UNCHANGED <<argVars, hostVars, devVars, outVars, nBoundary, nSimulate,
                   nCopy, lastDst, dlSrc>>

\* the loop ends; cudaMemcpy(from, pFrom, ..., cudaMemcpyDeviceToHost), which
\* waits for the stream
Download ==
    /\ pc = "loop"
    /\ ~LoopCond
    /\ StreamIdle
    /\ nCopy' = nCopy + 1
    /\ dlSrc' = DownloadSrc
    /\ \/ /\ ~devFault /\ DownloadSrc \in Bufs
          /\ from' = dev[DownloadSrc]
          /\ UNCHANGED <<dev, devFault, lastErr, todo>>
       \/ /\ DeviceFails
          /\ UNCHANGED from
    /\ pc' = "errcheck"
    /\ UNCHANGED <<argVars, fromPtr, toPtr, initGrid, hostTouched, ptrVars, layout,
                   kern, oob, atLaunch, outVars, nBoundary, nSimulate, nSwap,
                   lastDst, i>>

\* CUDA_ERR_CHECK( cudaGetLastError() )
ErrCheck ==
    /\ pc = "errcheck"
    /\ \/ /\ lastErr
          /\ printed' = printed \cup {"Error"}
          /\ exit' = "failure"
          /\ pc' = "exit"
       \/ /\ ~lastErr
          /\ pc' = "hash"
          /\ UNCHANGED <<printed, exit>>
    /\ UNCHANGED <<argVars, hostVars, devVars, ptrVars, hash, freed, cntVars, i>>

\* hash = getMD5DigestStr(from, lines); printf("hash gpu: %s\ttime: ...")
PrintHash ==
    /\ pc = "hash"
    /\ hash' = MD5(DigestBytes(from))
    /\ printed' = printed \cup {"hash gpu"}
    /\ pc' = "free"
    /\ UNCHANGED <<argVars, hostVars, devVars, ptrVars, exit, freed, cntVars, i>>

\* cudaFree(pFrom); cudaFree(pTo); cudaFree(pTemp); free(...); return EXIT_SUCCESS
Cleanup ==
    /\ pc = "free"
    /\ freed' = <<pFrom, pTo, pTemp>>
    /\ exit' = "success"
    /\ pc' = "done"
    /\ UNCHANGED <<argVars, hostVars, devVars, ptrVars, printed, hash, cntVars, i>>

----------------------------------------------------------------------------
\* One work item of the running boundary kernel, any of those not yet run
BoundaryStep ==
    /\ kern.name = "boundary"
    /\ \E w \in todo :
         LET bad == OutOfBounds(BoundaryCells(w[1], w[2]))
         IN  /\ oob' = (oob \/ bad)
             /\ \/ \E L \in LayoutsFor(bad) :
                      /\ layout' = L
                      /\ dev' = BoundaryItem(L, dev, kern.src, w[1], w[2])
                      /\ todo' = todo \ {w}
                      /\ UNCHANGED <<devFault, lastErr>>
                \/ \* an access outside the allocation may stop the kernel
                   /\ bad
                   /\ DeviceFails
                   /\ UNCHANGED layout
    /\ UNCHANGED <<argVars, hostVars, ptrVars, kern, atLaunch, outVars, cntVars, i, pc>>

\* One work item of the running simulate kernel, any of those not yet run
SimulateStep ==
    /\ kern.name = "simulate"
    /\ \E w \in todo :
         LET bad == OutOfBounds(SimulateCells(w[1], w[2]))
         IN  /\ oob' = (oob \/ bad)
             /\ \/ \E L \in LayoutsFor(bad) :
                      /\ layout' = L
                      /\ dev' = SimulateItem(L, dev, kern.src, kern.dst, w[1], w[2])
                      /\ todo' = todo \ {w}
                      /\ UNCHANGED <<devFault, lastErr>>
                \/ /\ bad
                   /\ DeviceFails
                   /\ UNCHANGED layout
    /\ UNCHANGED <<argVars, hostVars, ptrVars, kern, atLaunch, outVars, cntVars, i, pc>>

Next ==
    \/ AllocHost \/ InitConfig \/ CheckHost \/ AllocDev \/ CheckDev
    \/ Upload \/ LaunchBoundary \/ LaunchSimulate \/ Swap
    \/ Download \/ ErrCheck \/ PrintHash \/ Cleanup
    \/ BoundaryStep \/ SimulateStep

Spec == Init /\ [][Next]_vars

----------------------------------------------------------------------------
\* The reference automaton: the anneal rule on the interior alone, rows taken
\* modulo lines and columns modulo XSIZE (no halo).

Wrap(k, n) == ((k - 1 + n) % n) + 1

ModSum(g, r, c) ==
    Sum9([k \in 1 .. 9 |->
            g[Wrap(r + ((k - 1) % 3) - 1, lines)][Wrap(c + ((k - 1) \div 3) - 1, XSIZE)]])

TableValue(sum) == IF sum \in {4, 6, 7, 8, 9} THEN 1 ELSE 0

RefStep(g) ==
    [r \in Rows |-> [c \in Cols |->
        IF <<r, c>> \in Interior THEN TableValue(ModSum(g, r, c)) ELSE g[r][c]]]

RECURSIVE RefN(_, _)
RefN(g, n) == IF n = 0 THEN g ELSE RefN(RefStep(g), n - 1)

SameInterior(g, h) == \A a \in Interior : g[a[1]][a[2]] = h[a[1]][a[2]]

\* The run in which every launch executes its work items one after the other
\* in row-major order of the launch grid (and no access stops a kernel).

RECURSIVE SeqBoundaryFrom(_, _, _, _)
SeqBoundaryFrom(L, m, b, k) ==
    IF k < GridX * GridY
    THEN SeqBoundaryFrom(L, BoundaryItem(L, m, b, k % GridX, k \div GridX), b, k + 1)
    ELSE m

RECURSIVE SeqSimulateFrom(_, _, _, _, _)
SeqSimulateFrom(L, m, src, dst, k) ==
    IF k < GridX * GridY
    THEN SeqSimulateFrom(L, SimulateItem(L, m, src, dst, k % GridX, k \div GridX),
                         src, dst, k + 1)
    ELSE m

\* n steps on memory m with a the source and b the destination of the first
RECURSIVE SeqLoop(_, _, _, _, _)
SeqLoop(L, m, a, b, n) ==
    IF n = 0 THEN m[a]
    ELSE SeqLoop(L, SeqSimulateFrom(L, SeqBoundaryFrom(L, m, a, 0), a, b, 0), b, a, n - 1)

\* device memory after the upload of the grid initConfig produced
Uploaded == [b \in Bufs |-> IF b = "d1" THEN initGrid ELSE UninitGrid]

BoundaryDone == kern.name = "boundary" /\ todo = {} /\ ~devFault
SimulateDone == kern.name = "simulate" /\ todo = {} /\ ~devFault

\* interior cells on an edge or corner of the interior
EdgeCells == {a \in Interior : a[1] \in {1, lines} \/ a[2] \in {1, XSIZE}}

InteriorBytes(g) ==
    [k \in 1 .. lines * XSIZE |-> g[((k - 1) \div XSIZE) + 1][((k - 1) % XSIZE) + 1]]

Ended == pc \in {"exit", "done"}
HostAllocFailed == fromPtr = "null" \/ toPtr = "null"
NoDeviceOp == nBoundary = 0 /\ nSimulate = 0 /\ nCopy = 0

----------------------------------------------------------------------------
\* C1: on normal completion the interior of the grid copied back to the host
\* is the reference step applied `iterations` times to the initial interior.
EndToEndTorus ==
    pc = "done" => SameInterior(from, RefN(initGrid, iterations))

\* C2: the downloaded grid does not depend on the order in which the work
\* items of a launch run: every completed run ends with the grid of the run
\* that executes the work items of each launch in row-major order.
ScheduleIndependent ==
    pc = "done" => from = SeqLoop(layout, Uploaded, "d1", "d2", iterations)

\* C3: when a boundary launch has completed, the 3x3 sum read from the buffer
\* (halo included) around every edge cell of the interior equals the sum
\* taken over the interior alone with wrapped indices.
TorusWrap ==
    BoundaryDone =>
        \A a \in EdgeCells :
            Sum9(Neighbourhood(layout, dev, kern.src, a[1], a[2]))
                = ModSum(dev[kern.src], a[1], a[2])

\* C4: no work item of a boundary or simulate launch addresses a cell outside
\* rows 0..lines+1 and columns 0..XSIZE+1 of its buffer.
NoOutOfBounds == oob = FALSE

\* C5: the driver issues exactly `iterations` boundary launches and as many
\* simulate launches, swaps once after each simulate, and downloads the
\* buffer that was the destination of the last simulate launch (the uploaded
\* buffer when there was none).
ExactlyNSteps ==
    /\ pc = "loop" => nBoundary = i /\ nSimulate = i /\ nSwap = i /\ i <= iterations
    /\ pc = "simulate" => nBoundary = i + 1 /\ nSimulate = i /\ nSwap = i
    /\ pc = "swap" => nBoundary = i + 1 /\ nSimulate = i + 1 /\ nSwap = i
    /\ dlSrc # "none" =>
          /\ nBoundary = iterations /\ nSimulate = iterations /\ nSwap = iterations
          /\ dlSrc = lastDst

ExactlyNStepsWitness ==
    pc = "done" /\ iterations = 2 /\ nSimulate = 2 /\ dlSrc = "d1"

\* C6: with iterations = 0 no kernel is launched and the downloaded grid is,
\* cell for cell, the grid initConfig produced.
IdentityAtZero ==
    iterations = 0 =>
        /\ nBoundary = 0 /\ nSimulate = 0
        /\ (dlSrc # "none" /\ ~devFault) => from = initGrid

IdentityAtZeroWitness ==
    iterations = 0 /\ pc = "done" /\ from[1][1] = 1 /\ from[lines][XSIZE] = 0

\* C7: when a simulate launch has completed, for every interior cell the nine
\* source cells are 0/1 (their sum is in 0..9) and the destination cell holds
\* 1 if the sum is in {4,6,7,8,9} and 0 otherwise.
RuleTableClosure ==
    SimulateDone =>
        \A a \in Interior :
            LET n == Neighbourhood(layout, dev, kern.src, a[1], a[2])
            IN  /\ AllBoolean(n)
                /\ Sum9(n) \in 0 .. 9
                /\ dev[kern.dst][a[1]][a[2]] = TableValue(Sum9(n))

\* C8: the bytes given to the digest are exactly the interior cells of the
\* final grid.
DigestCoversInterior ==
    pc \in {"free", "done"} => hash = MD5(InteriorBytes(from))

\* C9: once a device operation has failed the run issues no further launch
\* or copy, and it ends with the failure reported, a failure status and no
\* result line.
FailFast ==
    /\ [][devFault => (nBoundary' = nBoundary /\ nSimulate' = nSimulate /\ nCopy' = nCopy)]_vars
    /\ []((devFault /\ Ended) =>
            (exit = "failure" /\ "Error" \in printed /\ "hash gpu" \notin printed))

\* C10: when a host allocation returned NULL the program has not accessed
\* memory through from or to, has issued no device operation, and ends with
\* the host-allocation diagnostic and a failure status.
HostAllocFailureImmediate ==
    HostAllocFailed =>
        /\ ~hostTouched
        /\ NoDeviceOp
        /\ Ended => (exit = "failure" /\ "ERROR: failure allocating host memory" \in printed)

\* C11: the device stages run in the order upload, boundary 1, simulate 1, ...,
\* boundary N, simulate N, download: a launch or copy starts only when no work
\* item of the stage before it is left to run, the work items that run belong
\* to the stage issued last (boundary k after simulate k-1, simulate k after
\* boundary k, both after the upload), and nothing is launched after the
\* download.
StageOrder ==
    /\ [][(nBoundary' # nBoundary \/ nSimulate' # nSimulate \/ nCopy' # nCopy)
            => todo = {}]_vars
    /\ [][dlSrc # "none" => (nBoundary' = nBoundary /\ nSimulate' = nSimulate)]_vars
    /\ [](nSimulate <= nBoundary /\ nBoundary <= nSimulate + 1)
    /\ []((todo # {} /\ kern.name = "boundary") => (nBoundary = nSimulate + 1 /\ nCopy = 1))
    /\ []((todo # {} /\ kern.name = "simulate") => (nSimulate = nBoundary /\ nCopy = 1))
    /\ [](dlSrc # "none" => todo = {})

StageOrderWitness ==
    kern.name = "simulate" /\ todo # {} /\ todo # Threads /\ nSimulate = 2 /\ pc = "loop"

\* C12: when a boundary launch has completed, the four corner cells of the halo
\* hold the diagonally opposite interior corners: buf[0][0] = buf[lines][XSIZE],
\* buf[0][XSIZE+1] = buf[lines][1], buf[lines+1][0] = buf[1][XSIZE],
\* buf[lines+1][XSIZE+1] = buf[1][1], whatever the order of the work items.
HaloCorners ==
    BoundaryDone =>
        LET g == dev[kern.src]
        IN  /\ g[0][0] = g[lines][XSIZE]
            /\ g[0][XSIZE + 1] = g[lines][1]
            /\ g[lines + 1][0] = g[1][XSIZE]
            /\ g[lines + 1][XSIZE + 1] = g[1][1]

\* C13: when a boundary launch has completed, every halo edge cell holds the
\* interior cell of the opposite side: buf[0][c] = buf[lines][c] and
\* buf[lines+1][c] = buf[1][c] for c in 1..XSIZE, buf[r][0] = buf[r][XSIZE] and
\* buf[r][XSIZE+1] = buf[r][1] for r in 1..lines.
HaloEdges ==
    BoundaryDone =>
        LET g == dev[kern.src]
        IN  /\ \A c \in 1 .. XSIZE :
                  g[0][c] = g[lines][c] /\ g[lines + 1][c] = g[1][c]
            /\ \A r \in 1 .. lines :
                  g[r][0] = g[r][XSIZE] /\ g[r][XSIZE + 1] = g[r][1]

\* the work items of the launch in the stream that have run
Executed == IF devFault THEN {} ELSE Threads \ todo

\* the cell to[y+1][x+1] work item w = <<x, y>> of simulate stores to
SimTarget(w) == <<SimRow(w[2]), SimCol(w[1])>>

\* the cells work item w = <<x, y>> of boundary stores to
BoundaryTargets(w) == {BDst(w[1], w[2], s) : s \in {k \in BStmts : BGuard(w[1], w[2], k)}}

\* C14: in a simulate launch every store of every work item goes to an
\* interior cell of the destination (row in 1..lines, column in 1..XSIZE),
\* none to row 0, row lines+1, column 0 or column XSIZE+1.
SimulateWritesInterior ==
    kern.name = "simulate" => \A w \in Executed : SimTarget(w) \in Interior

\* C15: when a simulate launch has completed, every interior cell (r, c) of
\* the destination has been written by that launch, by the work item with
\* index (c-1, r-1) and no other, with the value computed from the source
\* neighbourhood centred on (r, c).
FullInteriorCoverage ==
    SimulateDone =>
        \A a \in Interior :
            /\ {w \in Executed : SimTarget(w) = a} = {<<a[2] - 1, a[1] - 1>>}
            /\ dev[kern.dst][a[1]][a[2]] = SimValue(layout, atLaunch, kern.src, a[1], a[2])

\* the cells of device memory work item w of the simulate launch in the
\* stream loads from, and the cell it stores to
SimReads(w) ==
    {Resolve(layout, kern.src, a[1], a[2]) : a \in SimulateCells(w[1], w[2])}
SimWrite(w) == Resolve(layout, kern.dst, SimTarget(w)[1], SimTarget(w)[2])

\* C16: a completed simulate launch leaves the destination interior that the
\* row-major sequential execution of its work items on the memory of the
\* launch leaves, whatever order the work items ran in; and no work item of a
\* simulate launch loads a cell that another work item of the launch stores to.
SimulateParallelSafe ==
    /\ SimulateDone =>
          SameInterior(dev[kern.dst],
                       SeqSimulateFrom(layout, atLaunch, kern.src, kern.dst, 0)[kern.dst])
    /\ (kern.name = "simulate" /\ ~devFault) =>
          \A w \in Threads, u \in Threads :
              (u # w /\ SimWrite(u)[1] # "none") => SimWrite(u) \notin SimReads(w)

\* both cudaMalloc calls returned a buffer
AllocatedBoth == pFrom \in Bufs /\ pTo \in Bufs

\* C17: throughout the loop pFrom and pTo are different buffers and together
\* the two allocated ones; the boundary launch of a step gets pFrom, the
\* simulate launch of the step reads pFrom and writes pTo, so no simulate
\* launch has the same buffer as source and destination.
ExclusiveRoles ==
    (AllocatedBoth /\ pc \in {"loop", "simulate", "swap"}) =>
        /\ pFrom # pTo
        /\ {pFrom, pTo} = Bufs
        /\ (pc = "simulate" /\ ~devFault) =>
              kern = [name |-> "boundary", src |-> pFrom, dst |-> pFrom]
        /\ (pc = "swap" /\ ~devFault) =>
              kern = [name |-> "simulate", src |-> pFrom, dst |-> pTo]
        /\ kern.name = "simulate" => kern.src # kern.dst

ExclusiveRolesWitness ==
    /\ pc = "swap" /\ i = 1 /\ ~devFault /\ todo # {}
    /\ pFrom = "d2" /\ pTo = "d1"
    /\ kern = [name |-> "simulate", src |-> "d2", dst |-> "d1"]

\* the halo cells of a buffer
Halo == (Rows \X Cols) \ Interior

\* C18: a boundary launch changes no interior cell of the buffer it works on:
\* while it runs and when it has completed, the interior is as it was at the
\* launch, every cell of the buffer that differs is a halo cell, and every
\* store of an executed work item that reaches the buffer reaches a halo cell.
BoundaryFrame ==
    (kern.name = "boundary" /\ ~devFault) =>
        /\ SameInterior(dev[kern.src], atLaunch[kern.src])
        /\ \A a \in Rows \X Cols :
              dev[kern.src][a[1]][a[2]] # atLaunch[kern.src][a[1]][a[2]] => a \in Halo
        /\ \A w \in Executed : \A t \in BoundaryTargets(w) :
              LET cell == Resolve(layout, kern.src, t[1], t[2])
              IN  cell[1] = kern.src => <<cell[2], cell[3]>> \in Halo

BoundaryFrameWitness ==
    /\ BoundaryDone /\ oob /\ nBoundary = 2
    /\ dev[kern.src] # atLaunch[kern.src]
    /\ \E a \in Interior : dev[kern.src][a[1]][a[2]] = 1

\* how often pointer value b has been passed to cudaFree
TimesFreed(b) == Cardinality({k \in 1 .. Len(freed) : freed[k] = b})

\* C19: on normal completion each of the two device buffers has been passed
\* to cudaFree exactly once, after the final download, and cudaFree has been
\* given nothing else (no uninitialised pointer, no buffer a second time);
\* before completion nothing has been freed.
FreedExactlyOnce ==
    /\ pc = "done" =>
          /\ dlSrc # "none"
          /\ \A b \in Bufs : TimesFreed(b) = 1
          /\ \A k \in 1 .. Len(freed) : freed[k] \in Bufs
    /\ pc # "done" => freed = <<>>

====
